---------------------------- MODULE Spec2Model ----------------------------
(***************************************************************************)
(* A model of HttpFacility (src/src/http.error.js, lines 53-230): the      *)
(* dispatch routine request, the fixed-verb helpers, the completion        *)
(* adapter _response and the lifecycle hooks that set the configuration.   *)
(*                                                                         *)
(* JavaScript values are tagged records [t |-> tag, ...].  Strings that    *)
(* the code inspects character by character (path, baseUrl, url) are       *)
(* sequences of one-character strings; body texts are opaque tokens with   *)
(* a parse table.                                                          *)
(***************************************************************************)
EXTENDS Integers, Sequences, FiniteSets, TLC

VARIABLES
    cfg,        \* this.baseUrl, this.timeout, this.debug of the facility
    reqs,       \* one record per dispatch slot: the activation of request()
    urlIn,      \* URL resolution on its own: the inputs <<baseUrl, path>>
    urlOut      \* URL resolution on its own: the resolved URL, or <<>> before

vars == <<cfg, reqs, urlIn, urlOut>>

-----------------------------------------------------------------------------
(* Bounds *)

\* Number of dispatches that may be in flight at the same time.
MaxReq == 2

\* Longest path handed to the URL resolver when it is checked on its own.
MaxLen == 4

-----------------------------------------------------------------------------
(* JavaScript values *)

Undef == [t |-> "undefined"]
Null == [t |-> "null"]
Str(s) == [t |-> "string", v |-> s]
Num(n) == [t |-> "number", n |-> n]
Bool(b) == [t |-> "boolean", b |-> b]
Obj(k) == [t |-> "object", k |-> k]
Buf(s) == [t |-> "buffer", v |-> s]
Hdrs(h) == [t |-> "headers", h |-> h]

\* JavaScript truthiness, as used by !x, x || y and if (x).
Truthy(x) ==
    CASE x.t = "undefined" -> FALSE
      [] x.t = "null" -> FALSE
      [] x.t = "string" -> x.v # ""
      [] x.t = "number" -> x.n # 0
      [] x.t = "boolean" -> x.b
      [] OTHER -> TRUE

-----------------------------------------------------------------------------
(* Strings as sequences of characters *)

\* s.includes(sub)
Includes(s, sub) ==
    \E i \in 1..(Len(s) - Len(sub) + 1) :
        SubSeq(s, i, i + Len(sub) - 1) = sub

SchemeSep == <<":", "/", "/">>

\* s.replace(/^\//, ''): one leading slash is removed, the rest is kept.
StripLeadingSlash(s) ==
    IF Len(s) > 0 /\ s[1] = "/" THEN Tail(s) ELSE s

\* s.replace(/\/$/, ''): one trailing slash is removed.
StripTrailingSlash(s) ==
    IF Len(s) > 0 /\ s[Len(s)] = "/" THEN SubSeq(s, 1, Len(s) - 1) ELSE s

\* s.replace(/^\/+/, ''): every leading slash is removed.
RECURSIVE StripLeadingSlashes(_)
StripLeadingSlashes(s) ==
    IF Len(s) > 0 /\ s[1] = "/" THEN StripLeadingSlashes(Tail(s)) ELSE s

\* ResolveUrl with the regular expression /^\/+/ in place of /^\//.
ResolveUrlAllSlashes(baseUrl, path) ==
    IF Includes(path, SchemeSep)
    THEN path
    ELSE baseUrl \o <<"/">> \o StripLeadingSlashes(path)

\* const url = path.includes('://') ? path
\*                                  : `${this.baseUrl}/${path.replace(/^\//, '')}`
ResolveUrl(baseUrl, path) ==
    IF Includes(path, SchemeSep)
    THEN path
    ELSE baseUrl \o <<"/">> \o StripLeadingSlash(path)

-----------------------------------------------------------------------------
(* Errors *)

\* new Error(message): an error object and the properties the code may set
\* on it; a property that was never assigned is Undef.
NewError(name, message) ==
    [t |-> "error", name |-> name, message |-> message,
     status |-> Undef, statusText |-> Undef,
     headers |-> Undef, response |-> Undef]

\* `ERR_HTTP: ${resp.status} - ${resp.statusText}`
HttpErrMessage(status, statusText) ==
    <<"ERR_HTTP: ", status, " - ", statusText>>

\* What node-fetch rejects with when the request itself fails.
InvalidUrlError == NewError("TypeError", <<"Only absolute URLs are supported">>)
TimeoutError == NewError("FetchError", <<"network timeout">>)
ConnectError == NewError("FetchError", <<"connect ECONNREFUSED">>)

\* What reading the response body rejects with.
InvalidJsonError == NewError("FetchError", <<"invalid json response body">>)
BodyStreamError == NewError("FetchError", <<"body stream error">>)

\* What a throwing callback throws.
CallbackError == NewError("Error", <<"thrown by callback">>)

\* What calling a property that is not a function throws.
NotAFunctionError == NewError("TypeError", <<"is not a function">>)

-----------------------------------------------------------------------------
(* The transport's responses *)

\* A body whose stream breaks while it is read.
BrokenBody == "<broken stream>"

StatusText(status) ==
    CASE status = 200 -> "OK"
      [] status = 301 -> "Moved Permanently"
      [] status = 500 -> "Internal Server Error"
      [] OTHER -> "Unknown"

RespHeaders(status) ==
    Hdrs(IF status = 200 THEN "content-type: text/html; allow: GET"
                         ELSE "content-type: text/plain")

MkResp(status, body) ==
    [t |-> "response", status |-> status, statusText |-> StatusText(status),
     headers |-> RespHeaders(status), body |-> body]

\* resp.ok of node-fetch: the status is in the range 200..299.
RespOk(resp) == resp.status >= 200 /\ resp.status < 300

\* JSON.parse on the body texts of the model.
JsonTexts == {"{\"a\":1}", "0", "false", "null", "\"\""}

JsonParse(text) ==
    CASE text = "{\"a\":1}" -> Obj("a=1")
      [] text = "0" -> Num(0)
      [] text = "false" -> Bool(FALSE)
      [] text = "null" -> Null
      [] text = "\"\"" -> Str("")

Ok(v) == [ok |-> TRUE, v |-> v]
Fail(e) == [ok |-> FALSE, v |-> e]

\* resp.json()
RespJson(resp) ==
    IF resp.body = BrokenBody THEN Fail(BodyStreamError)
    ELSE IF resp.body \in JsonTexts THEN Ok(JsonParse(resp.body))
    ELSE Fail(InvalidJsonError)

\* resp.text()
RespText(resp) ==
    IF resp.body = BrokenBody THEN Fail(BodyStreamError) ELSE Ok(Str(resp.body))

\* resp.buffer()
RespBuffer(resp) ==
    IF resp.body = BrokenBody THEN Fail(BodyStreamError) ELSE Ok(Buf(resp.body))

-----------------------------------------------------------------------------
(* Configuration and lifecycle *)

Chars(s) == [t |-> "chars", s |-> s]

\* `${x}` for a string or for a property that was never set.
Render(x) ==
    IF x.t = "chars" THEN x.s
    ELSE <<"u", "n", "d", "e", "f", "i", "n", "e", "d">>

BaseB == <<"h", ":", "/", "/", "b">>
BaseC == <<"h", ":", "/", "/", "c">>

\* this.opts, the options the facility is constructed with.
FacOpts ==
    { [baseUrl |-> Undef, timeout |-> Undef, debug |-> Undef],
      [baseUrl |-> Chars(BaseB \o <<"/">>), timeout |-> Num(1000),
       debug |-> Bool(TRUE)] }

\* The facility after the constructor: baseUrl, timeout and debug are not set
\* before _start runs.
NewFacility(o) ==
    [opts |-> o, baseUrl |-> Undef, timeout |-> Undef, debug |-> Undef]

\* this.timeout = this.opts.timeout || 3000
DefaultTimeout == 3000

\* The second step of _start.
StartConf(c) ==
    [c EXCEPT
       !.baseUrl = Chars(StripTrailingSlash(
                       IF Truthy(c.opts.baseUrl) THEN c.opts.baseUrl.s ELSE <<>>)),
       !.timeout = IF Truthy(c.opts.timeout) THEN c.opts.timeout
                                             ELSE Num(DefaultTimeout),
       !.debug = Bool(Truthy(c.opts.debug))]

\* The second step of _stop.
StopConf(c) == [c EXCEPT !.baseUrl = Chars(<<>>)]

-----------------------------------------------------------------------------
(* Arguments of a call *)

Fn(behaviour) == [t |-> "function", behaviour |-> behaviour]

\* _.isFunction(x)
IsFunction(x) == x.t = "function"

\* An options object; a property the caller did not give is Undef.
MkOpts(body, headers, method, redirect, timeout, encoding) ==
    [t |-> "opts", body |-> body, headers |-> headers, method |-> method,
     redirect |-> redirect, timeout |-> timeout, encoding |-> encoding]

\* {}
EmptyOpts == MkOpts(Undef, Undef, Undef, Undef, Undef, Undef)

\* o[k] for an object that may or may not have the property k.
Prop(o, k) == IF k \in DOMAIN o THEN o[k] ELSE Undef

\* A qs value: a string 'a=1&b=c', a sequence of pairs [['a', 1], ['b', 'c']]
\* or a mapping { a: 1, b: 'c' }, with the key/value pairs it denotes.
Qs(form, pairs) == [t |-> "qs", form |-> form, pairs |-> pairs]

\* { ...o, qs }
WithQs(o, qs) ==
    [k \in DOMAIN o \cup {"qs"} |-> IF k = "qs" THEN qs ELSE o[k]]

\* { req, res } given as opts.encoding
EncObj(req, res) == [t |-> "object", req |-> req, res |-> res]

\* A header mapping of the caller: its content-type entry and one other entry.
HdrMap(ct, other) == [t |-> "hdrmap", ct |-> ct, other |-> other]

\* JSON.stringify(v): undefined stays undefined, anything else becomes the
\* JSON text of the value.
JsonStringify(v) ==
    IF v.t = "undefined" THEN Undef ELSE [t |-> "jsontext", of |-> v]

\* typeof x, for the values opts.encoding takes.
TypeOf(x) ==
    CASE x.t = "string" -> "string"
      [] x.t \in {"object", "null"} -> "object"
      [] x.t = "undefined" -> "undefined"
      [] OTHER -> x.t

\* ReqEnc with opts.encoding.res read in place of opts.encoding.req.
ReqEncFromRes(opts) ==
    CASE TypeOf(opts.encoding) = "string" -> opts.encoding.v
      [] TypeOf(opts.encoding) = "object" ->
            IF Truthy(opts.encoding.res) THEN opts.encoding.res.v ELSE "text"
      [] OTHER -> "text"

\* let reqEnc = 'text' ... switch (typeof opts.encoding)
ReqEnc(opts) ==
    CASE TypeOf(opts.encoding) = "string" -> opts.encoding.v
      [] TypeOf(opts.encoding) = "object" ->
            IF Truthy(opts.encoding.req) THEN opts.encoding.req.v ELSE "text"
      [] OTHER -> "text"

\* let resEnc = 'text' ... switch (typeof opts.encoding)
ResEnc(opts) ==
    CASE TypeOf(opts.encoding) = "string" -> opts.encoding.v
      [] TypeOf(opts.encoding) = "object" ->
            IF Truthy(opts.encoding.res) THEN opts.encoding.res.v ELSE "text"
      [] OTHER -> "text"

\* _.pick(opts, [...]) followed by the defaults of method, timeout, redirect
\* and by the json request encoding.  agent and compress are picked and handed
\* to fetch as they are; nothing in request reads them.
ReqOpts(c, opts) ==
    LET picked == [body |-> opts.body, headers |-> opts.headers,
                   method |-> opts.method, redirect |-> opts.redirect,
                   timeout |-> opts.timeout]
        m == IF Truthy(picked.method) THEN picked.method ELSE Str("get")
        tmo == IF Truthy(picked.timeout) THEN picked.timeout ELSE c.timeout
        rd == IF Truthy(picked.redirect) THEN Str("follow") ELSE Str("manual")
        base == [picked EXCEPT !.method = m, !.timeout = tmo, !.redirect = rd]
    IN  IF ReqEnc(opts) = "json"
        THEN [base EXCEPT
                !.headers = IF Truthy(base.headers)
                            THEN [base.headers EXCEPT !.ct = Str("application/json")]
                            ELSE HdrMap(Str("application/json"), Undef),
                !.body = JsonStringify(base.body)]
        ELSE base

\* The caller's headers object once request has run: reqOpts.headers is the
\* same object as opts.headers, so the assignment of content-type lands in it.
CallerHeadersAfter(opts) ==
    IF ReqEnc(opts) = "json" /\ Truthy(opts.headers)
    THEN [opts.headers EXCEPT !.ct = Str("application/json")]
    ELSE opts.headers

-----------------------------------------------------------------------------
(* The completion adapter *)

Pending == [t |-> "promise", state |-> "pending"]
Fulfilled(v) == [t |-> "promise", state |-> "fulfilled", v |-> v]
Rejected(e) == [t |-> "promise", state |-> "rejected", v |-> e]

\* A call expression that threw instead of returning a value.
Thrown(e) == [t |-> "thrown", state |-> "thrown", v |-> e]

\* What an async function's promise does with the value its body returns.
AsyncReturn(v) == IF v.t = "promise" THEN v ELSE Fulfilled(v)

\* One invocation cb(err, res).
CbCall(err, res) == [err |-> err, res |-> res]

\* _response(err, res, cb): the callback invocations it makes, whether it
\* throws, and the value it returns or the exception it throws.
Response(err, res, cb) ==
    IF IsFunction(cb)
    THEN [calls |-> <<CbCall(err, res)>>,
          thrown |-> cb.behaviour = "throws",
          v |-> IF cb.behaviour = "throws" THEN CallbackError ELSE Undef]
    ELSE [calls |-> <<>>, thrown |-> FALSE,
          v |-> IF Truthy(err) THEN Rejected(err) ELSE Fulfilled(res)]

-----------------------------------------------------------------------------
(* One activation of request *)

Idle ==
    [pc |-> "idle", entry |-> "", path |-> <<>>, opts |-> EmptyOpts,
     cb |-> Null, cfg0 |-> Undef, url |-> <<>>, reqOpts |-> Undef,
     reqEnc |-> "", resEnc |-> "", callerHeaders |-> Undef,
     resp |-> Undef, fetchErr |-> Null, httpErr |-> Null, respBody |-> Null, reads |-> <<>>,
     dbg |-> Undef, logs |-> <<>>, cbCalls |-> <<>>, ret |-> Pending]

Helpers == {"get", "post", "patch", "put", "delete"}
Entries == {"request"} \cup Helpers

\* Overload with the assignment cb = opts dropped.
OverloadKeepsThird(a2, a3) ==
    IF IsFunction(a2)
    THEN [opts |-> EmptyOpts, cb |-> IF a3.t = "undefined" THEN Null ELSE a3]
    ELSE [opts |-> IF a2.t = "undefined" THEN EmptyOpts ELSE a2,
          cb |-> IF a3.t = "undefined" THEN Null ELSE a3]

\* The parameter defaults (opts = {}, cb = null) and the overload test
\* if (_.isFunction(opts)) { cb = opts; opts = {} }
Overload(a2, a3) ==
    IF IsFunction(a2)
    THEN [opts |-> EmptyOpts, cb |-> a2]
    ELSE [opts |-> IF a2.t = "undefined" THEN EmptyOpts ELSE a2,
          cb |-> IF a3.t = "undefined" THEN Null ELSE a3]

\* The arguments request sees: a helper resolves the overload itself and
\* passes { ...opts, method: '<verb>' } and cb on.
RequestArgs(entry, a2, a3) ==
    IF entry = "request"
    THEN Overload(a2, a3)
    ELSE LET h == Overload(a2, a3)
         IN  Overload([h.opts EXCEPT !.method = Str(entry)], h.cb)

\* request from its entry to the call of fetch(url, reqOpts).
Begin(c, entry, path, a2, a3) ==
    LET a == RequestArgs(entry, a2, a3)
    IN  [Idle EXCEPT
           !.pc = "fetch", !.entry = entry, !.path = path,
           !.opts = a.opts, !.cb = a.cb,
           !.cfg0 = c,
           !.url = ResolveUrl(Render(c.baseUrl), path),
           !.reqOpts = ReqOpts(c, a.opts),
           !.reqEnc = ReqEnc(a.opts), !.resEnc = ResEnc(a.opts),
           !.callerHeaders = CallerHeadersAfter(a.opts)]

\* catch (err) { return this._response(err, null, cb) }
Catch(r, err) ==
    LET b == Response(err, Null, r.cb)
    IN  [r EXCEPT !.pc = "done",
                  !.cbCalls = r.cbCalls \o b.calls,
                  !.ret = IF b.thrown THEN Rejected(b.v) ELSE AsyncReturn(b.v)]

\* return this._response(err, res, cb) inside the try block: what
\* _response throws is caught by the catch clause of request.
Deliver(r, err, res) ==
    LET a == Response(err, res, r.cb)
    IN  IF a.thrown
        THEN Catch([r EXCEPT !.cbCalls = r.cbCalls \o a.calls], a.v)
        ELSE [r EXCEPT !.pc = "done",
                       !.cbCalls = r.cbCalls \o a.calls,
                       !.ret = AsyncReturn(a.v)]

\* httpErr = new Error(...); httpErr.status = ...; httpErr.statusText = ...
HttpErrOf(resp) ==
    IF RespOk(resp)
    THEN Null
    ELSE [NewError("Error", HttpErrMessage(resp.status, resp.statusText))
            EXCEPT !.status = Num(resp.status),
                   !.statusText = Str(resp.statusText)]

\* The body reader the switch on resEnc calls.
ReaderOf(resEnc) ==
    CASE resEnc = "json" -> "json"
      [] resEnc = "text" -> "text"
      [] OTHER -> "buffer"

\* What the reader settles with.
ReadBody(reader, resp) ==
    CASE reader = "json" -> RespJson(resp)
      [] reader = "text" -> RespText(resp)
      [] OTHER -> RespBuffer(resp)

\* request from the moment fetch fulfils to the body read it awaits, or to
\* its completion for HEAD and OPTIONS.
AfterFetch(r, resp) ==
    LET httpErr == HttpErrOf(resp)
        r1 == [r EXCEPT !.resp = resp, !.httpErr = httpErr]
    IN  IF r.reqOpts.method = Str("head") \/ r.reqOpts.method = Str("options")
        THEN Deliver([r1 EXCEPT !.respBody = resp.headers], httpErr, resp.headers)
        ELSE [r1 EXCEPT !.pc = "body", !.reads = <<ReaderOf(r.resEnc)>>]

\* AfterFetchError with the transport failure wrapped into an error
\* that carries a status.
AfterFetchErrorWrapped(r, err) ==
    Catch([r EXCEPT !.fetchErr = err],
          [NewError("Error", HttpErrMessage(0, "transport"))
             EXCEPT !.status = Num(0), !.response = err])

\* request when fetch rejects: the catch clause of the outer try.
AfterFetchError(r, err) == Catch([r EXCEPT !.fetchErr = err], err)

\* AfterBody with if (!httpErr) dropped: a failed read always completes with
\* the read error.
AfterBodyReadErrorWins(r, debug, out) ==
    IF out.ok
    THEN LET e == IF Truthy(r.httpErr) /\ Truthy(out.v)
                  THEN [r.httpErr EXCEPT !.response = out.v] ELSE r.httpErr
         IN  Deliver([r EXCEPT !.respBody = out.v, !.httpErr = e], e, out.v)
    ELSE Deliver([r EXCEPT !.dbg = debug,
                           !.logs = IF Truthy(debug) THEN <<out.v>> ELSE <<>>],
                 out.v, Null)

\* AfterBody with the return in the catch clause dropped: a failed read is
\* swallowed whatever the status was.
AfterBodyReadErrorLost(r, debug, out) ==
    IF out.ok
    THEN LET e == IF Truthy(r.httpErr) /\ Truthy(out.v)
                  THEN [r.httpErr EXCEPT !.response = out.v] ELSE r.httpErr
         IN  Deliver([r EXCEPT !.respBody = out.v, !.httpErr = e], e, out.v)
    ELSE Deliver([r EXCEPT !.dbg = debug,
                           !.logs = IF Truthy(debug) THEN <<out.v>> ELSE <<>>],
                 r.httpErr, Null)

\* AfterBody with if (this.debug) dropped: the read error is always logged.
AfterBodyAlwaysLogs(r, debug, out) ==
    IF out.ok
    THEN LET e == IF Truthy(r.httpErr) /\ Truthy(out.v)
                  THEN [r.httpErr EXCEPT !.response = out.v] ELSE r.httpErr
         IN  Deliver([r EXCEPT !.respBody = out.v, !.httpErr = e], e, out.v)
    ELSE LET r1 == [r EXCEPT !.dbg = debug, !.logs = <<out.v>>]
         IN  IF ~Truthy(r.httpErr)
             THEN Deliver(r1, out.v, Null)
             ELSE Deliver(r1, r.httpErr, Null)

\* request from the moment the body read settles to its completion; debug is
\* this.debug as the catch clause of the inner try reads it.
AfterBody(r, debug, out) ==
    IF out.ok
    THEN LET e == IF Truthy(r.httpErr) /\ Truthy(out.v)
                  THEN [r.httpErr EXCEPT !.response = out.v] ELSE r.httpErr
         IN  Deliver([r EXCEPT !.respBody = out.v, !.httpErr = e], e, out.v)
    ELSE LET r1 == [r EXCEPT !.dbg = debug,
                             !.logs = IF Truthy(debug) THEN <<out.v>> ELSE <<>>]
         IN  IF ~Truthy(r.httpErr)
             THEN Deliver(r1, out.v, Null)
             ELSE Deliver(r1, r.httpErr, Null)

-----------------------------------------------------------------------------
(* Inputs *)

PathRel == <<"/", "a">>
PathAbs == <<"h", ":", "/", "/", "x">>
Paths == {PathRel, PathAbs}

Methods == {Undef, Str("get"), Str("head"), Str("options"), Str("HEAD")}
Timeouts == {Undef, Num(1)}
Encodings ==
    {Undef, Str("json"), Str("xml"),
     EncObj(Str("json"), Undef), EncObj(Undef, Str("json"))}

Callbacks == {Fn("returns"), Fn("throws")}

OptsArgs ==
    {MkOpts(Undef, Undef, m, Undef, tmo, enc) :
        m \in Methods, tmo \in Timeouts, enc \in Encodings}

SecondArgs == OptsArgs \cup Callbacks \cup {Undef}
ThirdArgs == Callbacks \cup {Undef}

\* The arguments of the calls made while the configuration is being changed.
ConcOptsArgs == {MkOpts(Undef, Undef, Undef, Undef, Undef, Str("json"))}

Statuses == {200, 500}
Bodies == {"", "test", BrokenBody} \cup JsonTexts
Responses == {MkResp(st, b) : st \in Statuses, b \in Bodies}
ConcResponses == {MkResp(500, "test")}

\* node-fetch accepts absolute URLs only.
IsAbsoluteUrl(url) == Includes(url, SchemeSep)

\* What fetch may reject with for a URL.
TransportErrors(url) ==
    IF IsAbsoluteUrl(url) THEN {TimeoutError, ConnectError} ELSE {InvalidUrlError}

-----------------------------------------------------------------------------
(* Actions *)

Slots == 1..MaxReq

\* _start
Start ==
    /\ cfg' = StartConf(cfg)
    /\ UNCHANGED <<reqs, urlIn, urlOut>>

\* _stop
Stop ==
    /\ cfg' = StopConf(cfg)
    /\ UNCHANGED <<reqs, urlIn, urlOut>>

\* fac.baseUrl = '...', as the tests do between and during calls.
SetBaseUrl ==
    /\ \E u \in {BaseB, BaseC} : cfg' = [cfg EXCEPT !.baseUrl = Chars(u)]
    /\ UNCHANGED <<reqs, urlIn, urlOut>>

\* fac.debug = true, fac.debug = false
SetDebug ==
    /\ \E b \in BOOLEAN : cfg' = [cfg EXCEPT !.debug = Bool(b)]
    /\ UNCHANGED <<reqs, urlIn, urlOut>>

\* fac.timeout = n
SetTimeout ==
    /\ \E n \in {1000, 2000} : cfg' = [cfg EXCEPT !.timeout = Num(n)]
    /\ UNCHANGED <<reqs, urlIn, urlOut>>

\* A caller invokes request or a helper: the code runs up to await fetch(...).
Call(i, entries, paths, seconds, thirds) ==
    /\ reqs[i].pc = "idle"
    /\ \E e \in entries, p \in paths, a2 \in seconds, a3 \in thirds :
          reqs' = [reqs EXCEPT ![i] = Begin(cfg, e, p, a2, a3)]
    /\ UNCHANGED <<cfg, urlIn, urlOut>>

\* fetch fulfils with a response.
FetchReturn(i, responses) ==
    /\ reqs[i].pc = "fetch"
    /\ IsAbsoluteUrl(reqs[i].url)
    /\ \E resp \in responses :
          reqs' = [reqs EXCEPT ![i] = AfterFetch(reqs[i], resp)]
    /\ UNCHANGED <<cfg, urlIn, urlOut>>

\* fetch rejects.
FetchThrow(i) ==
    /\ reqs[i].pc = "fetch"
    /\ \E err \in TransportErrors(reqs[i].url) :
          reqs' = [reqs EXCEPT ![i] = AfterFetchError(reqs[i], err)]
    /\ UNCHANGED <<cfg, urlIn, urlOut>>

\* The body read settles.
BodySettle(i) ==
    /\ reqs[i].pc = "body"
    /\ reqs' = [reqs EXCEPT ![i] =
                  AfterBody(reqs[i], cfg.debug,
                            ReadBody(reqs[i].reads[1], reqs[i].resp))]
    /\ UNCHANGED <<cfg, urlIn, urlOut>>

\* The caller has seen the completion; the slot is free for the next call.
Forget(i) ==
    /\ reqs[i].pc = "done"
    /\ reqs' = [reqs EXCEPT ![i] = Idle]
    /\ UNCHANGED <<cfg, urlIn, urlOut>>

\* The URL resolver applied to the inputs chosen at the start.
Resolve ==
    /\ ~urlOut.done
    /\ urlOut' = [done |-> TRUE, url |-> ResolveUrl(urlIn.baseUrl, urlIn.path)]
    /\ UNCHANGED <<cfg, reqs, urlIn>>

NoUrl == [done |-> FALSE, url |-> <<>>]

Init ==
    /\ cfg \in {NewFacility(o) : o \in FacOpts}
    /\ reqs = [i \in Slots |-> Idle]
    /\ urlIn = [baseUrl |-> <<>>, path |-> <<>>]
    /\ urlOut = NoUrl

\* One dispatch at a time, with every shape of call and of response.
Next ==
    \/ Start
    \/ Stop
    \/ Call(1, Entries, Paths, SecondArgs, ThirdArgs)
    \/ FetchReturn(1, Responses)
    \/ FetchThrow(1)
    \/ BodySettle(1)
    \/ Forget(1)

Spec == Init /\ [][Next]_vars

\* A started facility whose configuration is changed while dispatches are in
\* flight.
InitConc ==
    /\ cfg = StartConf(NewFacility(
                 [baseUrl |-> Chars(BaseB), timeout |-> Num(1000),
                  debug |-> Undef]))
    /\ reqs = [i \in Slots |-> Idle]
    /\ urlIn = [baseUrl |-> <<>>, path |-> <<>>]
    /\ urlOut = NoUrl

NextConc ==
    \/ SetBaseUrl
    \/ SetDebug
    \/ SetTimeout
    \/ \E i \in Slots :
          \/ Call(i, {"request"}, {PathRel}, ConcOptsArgs, {Undef})
          \/ FetchReturn(i, ConcResponses)
          \/ BodySettle(i)
          \/ Forget(i)

SpecConc == InitConc /\ [][NextConc]_vars

\* The URL resolver on its own, over every short path.
UrlChars == {"/", ":", "a"}
UrlPaths == UNION {[1..n -> UrlChars] : n \in 0..MaxLen}
UrlBases == {<<>>, BaseB, <<"b">>}

InitUrl ==
    /\ cfg = NewFacility([baseUrl |-> Undef, timeout |-> Undef, debug |-> Undef])
    /\ reqs = [i \in Slots |-> Idle]
    /\ urlIn \in [baseUrl : UrlBases, path : UrlPaths]
    /\ urlOut = NoUrl

NextUrl == Resolve

SpecUrl == InitUrl /\ [][NextUrl]_vars

\* The names the tests call on the facility that HttpFacility does not define.
UndefinedHelpers == {"head", "options"}

\* fac.head(...), fac.options(...): the property is undefined, so the call
\* expression throws a TypeError and request never runs.
CallUndefined(i, names) ==
    /\ reqs[i].pc = "idle"
    /\ \E e \in names :
          reqs' = [reqs EXCEPT ![i] =
                     [Idle EXCEPT !.pc = "done", !.entry = e,
                                  !.ret = Thrown(NotAFunctionError)]]
    /\ UNCHANGED <<cfg, urlIn, urlOut>>

\* Calls that give a body, headers, an encoding and query parameters.
OptBodies == {Undef, Obj("data=test")}
OptHeaders ==
    {Undef, HdrMap(Undef, Str("v")), HdrMap(Str("text/plain"), Undef)}
OptMethods == {Undef, Str("post")}
OptEncodings ==
    {Undef, Str("json"), Str("xml"), EncObj(Undef, Undef),
     EncObj(Str("json"), Str("raw")), EncObj(Str("xml"), Undef)}

QsCall == <<<<"a", "1">>, <<"b", "c">>>>
QsDefault == <<<<"a", "2">>, <<"d", "e">>>>
QsForms == {"string", "pairs", "mapping"}

RichOptsArgs ==
    {MkOpts(b, h, m, Undef, Undef, enc) :
        b \in OptBodies, h \in OptHeaders, m \in OptMethods,
        enc \in OptEncodings}
    \cup {WithQs(MkOpts(Undef, Undef, Str("get"), Undef, Undef, Str("json")),
                 Qs(f, QsCall)) : f \in QsForms}

RichSecondArgs == RichOptsArgs \cup Callbacks \cup {Undef}

RichResponses ==
    {MkResp(st, b) : st \in Statuses, b \in {"test", "{\"a\":1}", BrokenBody}}

\* new HttpFacility(caller, { baseUrl, qs }, ctx), started.
RichFacOpts ==
    {[baseUrl |-> Chars(BaseB), timeout |-> Undef, debug |-> Undef, qs |-> q] :
        q \in {Undef, Qs("mapping", QsDefault)}}

InitRich ==
    /\ cfg \in {StartConf(NewFacility(o)) : o \in RichFacOpts}
    /\ reqs = [i \in Slots |-> Idle]
    /\ urlIn = [baseUrl |-> <<>>, path |-> <<>>]
    /\ urlOut = NoUrl

NextRich ==
    \/ Call(1, Entries, {PathRel}, RichSecondArgs, ThirdArgs)
    \/ CallUndefined(1, UndefinedHelpers)
    \/ FetchReturn(1, RichResponses)
    \/ FetchThrow(1)
    \/ BodySettle(1)
    \/ Forget(1)

SpecRich == InitRich /\ [][NextRich]_vars

\* Two callers make the same calls, the first as f(path, cb), the second as
\* f(path, {}, cb).
PairResponses == {MkResp(st, "test") : st \in Statuses}

NextPair ==
    \/ Call(1, Entries, Paths, Callbacks, {Undef})
    \/ Call(2, Entries, Paths, {EmptyOpts}, Callbacks)
    \/ \E i \in {1, 2} :
          \/ FetchReturn(i, PairResponses)
          \/ FetchThrow(i)
          \/ BodySettle(i)
          \/ Forget(i)

SpecPair == InitConc /\ [][NextPair]_vars

-----------------------------------------------------------------------------
(* What a dispatch delivered *)

Done(r) == r.pc = "done"
Active(r) == r.pc # "idle"

\* null or undefined
Empty(x) == x.t \in {"null", "undefined"}

\* The transport answered (fetch fulfilled).
Answered(r) == r.resp.t = "response"

\* The body read was started and has failed / has succeeded.
ReadFailed(r) == Done(r) /\ r.reads # <<>> /\ ~ReadBody(r.reads[1], r.resp).ok
ReadSucceeded(r) == Done(r) /\ r.reads # <<>> /\ ReadBody(r.reads[1], r.resp).ok
ReadValue(r) == ReadBody(r.reads[1], r.resp).v

\* The error and the result a finished dispatch completed with: the arguments
\* of the first callback invocation, or how the returned promise settled.
CompletionError(r) ==
    IF IsFunction(r.cb) THEN r.cbCalls[1].err
    ELSE IF r.ret.state = "rejected" THEN r.ret.v ELSE Null

CompletionResult(r) ==
    IF IsFunction(r.cb) THEN r.cbCalls[1].res
    ELSE IF r.ret.state = "fulfilled" THEN r.ret.v ELSE Null

\* { body, headers }
Envelope(body, headers) == [t |-> "envelope", body |-> body, headers |-> headers]

-----------------------------------------------------------------------------
(* Claims *)

\* C1: a supplied callback is invoked exactly once over the whole dispatch,
\* whatever the outcome is and whether the callback returns or throws: never
\* twice while the dispatch runs, and exactly once when it has finished.
C1_CallbackExactlyOnce ==
    \A i \in Slots :
        IsFunction(reqs[i].cb) =>
            /\ Len(reqs[i].cbCalls) <= 1
            /\ Done(reqs[i]) => Len(reqs[i].cbCalls) = 1

\* C2: a finished dispatch has one outcome: without a callback the returned
\* promise is settled, fulfilled or rejected; with a callback no invocation
\* receives a non-empty error together with a non-empty result.
C2_ErrorOrResult ==
    \A i \in Slots :
        Done(reqs[i]) =>
            /\ ~IsFunction(reqs[i].cb) =>
                  reqs[i].ret.state \in {"fulfilled", "rejected"}
            /\ \A k \in 1..Len(reqs[i].cbCalls) :
                  Empty(reqs[i].cbCalls[k].err) \/ Empty(reqs[i].cbCalls[k].res)

\* C3: a successful dispatch (2xx, body read succeeded or skipped) completes
\* with the envelope {body, headers}: body the decoded body (the header mapping
\* when decoding is skipped), headers the response header mapping.
C3_SuccessEnvelope ==
    \A i \in Slots :
        LET r == reqs[i]
        IN  (Done(r) /\ Answered(r) /\ RespOk(r.resp) /\ ~ReadFailed(r)) =>
                CompletionResult(r) =
                    Envelope(IF r.reads = <<>> THEN r.resp.headers ELSE ReadValue(r),
                             r.resp.headers)

\* C4: a non-2xx response completes with a protocol error whose message is
\* "ERR_HTTP: <status> - <statusText>", whose status and statusText are those
\* of the response and whose headers are the response header mapping; a 2xx
\* response never completes with an error that carries a status.
C4_ProtocolError ==
    \A i \in Slots :
        LET r == reqs[i]
            e == CompletionError(r)
        IN  (Done(r) /\ Answered(r)) =>
                IF RespOk(r.resp)
                THEN e.t = "error" => e.status = Undef
                ELSE /\ e.t = "error"
                     /\ e.message = HttpErrMessage(r.resp.status, r.resp.statusText)
                     /\ e.status = Num(r.resp.status)
                     /\ e.statusText = Str(r.resp.statusText)
                     /\ e.headers = r.resp.headers

\* C5: for a non-2xx response the protocol error's response field is the
\* decoded body whenever the body read succeeded, whatever the decoded value,
\* and is absent or null when the read failed or was skipped.
C5_ResponseIsDecodedBody ==
    \A i \in Slots :
        LET r == reqs[i]
            e == CompletionError(r)
        IN  (Done(r) /\ Answered(r) /\ ~RespOk(r.resp)) =>
                IF ReadSucceeded(r)
                THEN \/ e.response = ReadValue(r)
                     \/ Empty(e.response) /\ Empty(ReadValue(r))
                ELSE Empty(e.response)

\* C6: when the status is non-2xx and the body read fails, the dispatch
\* completes with the protocol error (message, status and statusText set, no
\* response field), not with the read error, and delivers no result; a read
\* error is logged exactly when the debug flag is set as the failure is
\* handled, and nothing else is logged.
C6_ProtocolErrorWins ==
    \A i \in Slots :
        LET r == reqs[i]
            e == CompletionError(r)
        IN  /\ (Answered(r) /\ ~RespOk(r.resp) /\ ReadFailed(r)) =>
                  /\ e.t = "error"
                  /\ e # ReadValue(r)
                  /\ e.message = HttpErrMessage(r.resp.status, r.resp.statusText)
                  /\ e.status = Num(r.resp.status)
                  /\ e.statusText = Str(r.resp.statusText)
                  /\ e.response = Undef
                  /\ Empty(CompletionResult(r))
            /\ ReadFailed(r) =>
                  r.logs = IF Truthy(r.dbg) THEN <<ReadValue(r)>> ELSE <<>>
            /\ ~ReadFailed(r) => r.logs = <<>>

C6_Witness ==
    \E i \in Slots :
        /\ Done(reqs[i])
        /\ Answered(reqs[i])
        /\ reqs[i].resp.status = 500
        /\ reqs[i].reads = <<"json">>
        /\ reqs[i].resp.body = "test"
        /\ reqs[i].logs = <<InvalidJsonError>>
        /\ reqs[i].ret = Rejected(HttpErrOf(reqs[i].resp))

\* C7: when the status is 2xx and the body read fails, the dispatch completes
\* with the read error itself and delivers no result.
C7_DecodeErrorCompletes ==
    \A i \in Slots :
        LET r == reqs[i]
        IN  (Answered(r) /\ RespOk(r.resp) /\ ReadFailed(r)) =>
                /\ CompletionError(r) = ReadValue(r)
                /\ ~IsFunction(r.cb) => r.ret = Rejected(ReadValue(r))
                /\ \A k \in 1..Len(r.cbCalls) : r.cbCalls[k].res = Null

C7_Witness ==
    \E i \in Slots :
        /\ Done(reqs[i])
        /\ Answered(reqs[i])
        /\ reqs[i].resp = MkResp(200, "test")
        /\ reqs[i].reads = <<"json">>
        /\ reqs[i].ret = Rejected(InvalidJsonError)

\* C8: a failure raised by fetch completes the dispatch with that very error
\* value: it carries no status, statusText or response, no protocol error is
\* built and no body read is started.
C8_TransportErrorUnmodified ==
    \A i \in Slots :
        LET r == reqs[i]
        IN  r.fetchErr # Null =>
                /\ Done(r)
                /\ r.fetchErr \in {InvalidUrlError, TimeoutError, ConnectError}
                /\ CompletionError(r) = r.fetchErr
                /\ CompletionError(r).status = Undef
                /\ CompletionError(r).statusText = Undef
                /\ CompletionError(r).response = Undef
                /\ Empty(CompletionResult(r))
                /\ r.httpErr = Null
                /\ r.reads = <<>>

C8_Witness ==
    \E i \in Slots :
        /\ Done(reqs[i])
        /\ reqs[i].fetchErr = TimeoutError
        /\ reqs[i].ret = Rejected(TimeoutError)

\* The timeout request hands to fetch when the facility's configuration is c.
TimeoutUnder(c, opts) == IF Truthy(opts.timeout) THEN opts.timeout ELSE c.timeout

\* The dispatch r run again from its call under the configuration c, with the
\* same transport outcome and the debug flag d.
Replay(r, c, d) ==
    LET r0 == Begin(c, "request", r.path, r.opts, r.cb)
    IN  IF r.fetchErr # Null
        THEN AfterFetchError(r0, r.fetchErr)
        ELSE LET r1 == AfterFetch(r0, r.resp)
             IN  IF r1.pc = "done"
                 THEN r1
                 ELSE AfterBody(r1, d, ReadBody(r1.reads[1], r.resp))

\* C9, as claimed: the whole configuration is read when a call starts.  The
\* URL and the timeout of a dispatch are those the configuration at its start
\* gives, whatever the configuration has become since; so is the logging of
\* a failed body read; and the outcome does not depend on the configuration.
C9_ReadAtStart ==
    \A i \in Slots :
        LET r == reqs[i]
        IN  Active(r) =>
              /\ r.url = ResolveUrl(Render(r.cfg0.baseUrl), r.path)
              /\ r.reqOpts.timeout = TimeoutUnder(r.cfg0, r.opts)
              /\ ReadFailed(r) => (r.logs # <<>> <=> Truthy(r.cfg0.debug))
              /\ Done(r) =>
                    /\ Replay(r, cfg, cfg.debug).ret = r.ret
                    /\ Replay(r, cfg, cfg.debug).cbCalls = r.cbCalls

\* C9, amended: baseUrl and timeout are read when a call starts, so the URL
\* and the timeout of a dispatch are those the configuration at its start
\* gives, whatever the configuration has become since, and the outcome does
\* not depend on the configuration; the debug flag is read when a body read
\* fails, and the failure is logged exactly when the flag is set then.
C9_UrlAndTimeoutReadAtStart ==
    \A i \in Slots :
        LET r == reqs[i]
        IN  Active(r) =>
              /\ r.url = ResolveUrl(Render(r.cfg0.baseUrl), r.path)
              /\ r.reqOpts.timeout = TimeoutUnder(r.cfg0, r.opts)
              /\ ReadFailed(r) => (r.logs # <<>> <=> Truthy(r.dbg))
              /\ Done(r) =>
                    /\ Replay(r, cfg, cfg.debug).ret = r.ret
                    /\ Replay(r, cfg, cfg.debug).cbCalls = r.cbCalls

\* A dispatch that started under one configuration and finished, with its URL
\* and timeout as at its start and its read failure logged under a debug flag
\* set in flight, while a later dispatch runs under the changed configuration.
C9_Witness ==
    \E i, j \in Slots :
        /\ Done(reqs[i])
        /\ reqs[i].cfg0.baseUrl = Chars(BaseB)
        /\ reqs[i].cfg0.timeout = Num(1000)
        /\ ~Truthy(reqs[i].cfg0.debug)
        /\ reqs[i].url = BaseB \o PathRel
        /\ reqs[i].reqOpts.timeout = Num(1000)
        /\ reqs[i].logs # <<>>
        /\ cfg.baseUrl = Chars(BaseC)
        /\ cfg.timeout = Num(2000)
        /\ reqs[j].pc = "fetch"
        /\ reqs[j].url = BaseC \o PathRel
        /\ reqs[j].reqOpts.timeout = Num(2000)

\* C10: a path that contains "://" is the URL, whatever baseUrl is; any other
\* path resolves to baseUrl, a slash, and the path without one leading slash.
C10_UrlResolution ==
    urlOut.done =>
        LET path == urlIn.path
            base == urlIn.baseUrl
            hasScheme == \E k \in 1..Len(path) :
                            /\ k + 2 <= Len(path)
                            /\ path[k] = ":"
                            /\ path[k + 1] = "/"
                            /\ path[k + 2] = "/"
            rest == IF path # <<>> /\ path[1] = "/"
                    THEN [k \in 1..(Len(path) - 1) |-> path[k + 1]]
                    ELSE path
        IN  IF hasScheme
            THEN urlOut.url = path
            ELSE /\ Len(urlOut.url) = Len(base) + 1 + Len(rest)
                 /\ \A k \in 1..Len(base) : urlOut.url[k] = base[k]
                 /\ urlOut.url[Len(base) + 1] = "/"
                 /\ \A k \in 1..Len(rest) : urlOut.url[Len(base) + 1 + k] = rest[k]

\* "//a" under a base URL: one slash of the path is dropped, one is kept.
C10_Witness ==
    /\ urlOut.done
    /\ urlIn.baseUrl = BaseB
    /\ urlIn.path = <<"/", "/", "a">>
    /\ urlOut.url = BaseB \o <<"/", "/", "a">>

-----------------------------------------------------------------------------
(* What a dispatch handed to the transport *)

\* request ran: the call expression did not throw before it.
Dispatched(r) == Active(r) /\ r.ret.t # "thrown"

\* The query component of the URL handed to fetch: what follows its first "?".
QueryOf(url) ==
    IF \E k \in 1..Len(url) : url[k] = "?"
    THEN LET first == CHOOSE k \in 1..Len(url) :
                         url[k] = "?" /\ \A j \in 1..(k - 1) : url[j] # "?"
         IN  SubSeq(url, first + 1, Len(url))
    ELSE <<>>

\* The key/value pairs a qs value denotes; none when no qs is given.
PairsOf(qs) == IF qs.t = "qs" THEN qs.pairs ELSE <<>>

\* The query string that carries the pairs in their order: k=v&k=v...
RECURSIVE RenderQuery(_)
RenderQuery(pairs) ==
    IF pairs = <<>>
    THEN <<>>
    ELSE <<pairs[1][1], "=", pairs[1][2]>>
         \o (IF Len(pairs) > 1 THEN <<"&">> ELSE <<>>)
         \o RenderQuery(Tail(pairs))

\* C11: the query string handed to the transport carries every default pair
\* of the facility first and then every pair of the call's qs, whatever form
\* the qs has, a key given by both keeping both values in that order.
C11_QueryComposition ==
    \A i \in Slots :
        LET r == reqs[i]
        IN  Dispatched(r) =>
                QueryOf(r.url) =
                    RenderQuery(PairsOf(Prop(r.cfg0.opts, "qs"))
                                \o PairsOf(Prop(r.opts, "qs")))

\* C12: when the request encoding is json, the body handed to the transport
\* is the JSON text of opts.body, and the content-type handed to the transport
\* is the caller's own when the caller's headers carry one, application/json
\* otherwise.
C12_JsonBodyAndContentType ==
    \A i \in Slots :
        LET r == reqs[i]
            callerSet == Truthy(r.opts.headers) /\ r.opts.headers.ct # Undef
        IN  (Dispatched(r) /\ r.reqEnc = "json") =>
                /\ r.reqOpts.body = JsonStringify(r.opts.body)
                /\ r.reqOpts.headers.ct =
                      IF callerSet THEN r.opts.headers.ct
                                   ELSE Str("application/json")

\* C13: without opts.encoding both encodings are text; a string gives both;
\* an object gives the request encoding by its req and the response encoding
\* by its res, each text when unset.  Under any request encoding other than
\* json the body handed to the transport is opts.body itself.
C13_EncodingResolution ==
    \A i \in Slots :
        LET r == reqs[i]
            enc == r.opts.encoding
            OrText(x) == IF x = Undef THEN "text" ELSE x.v
        IN  Dispatched(r) =>
                /\ enc.t = "undefined" =>
                      r.reqEnc = "text" /\ r.resEnc = "text"
                /\ enc.t = "string" =>
                      r.reqEnc = enc.v /\ r.resEnc = enc.v
                /\ enc.t = "object" =>
                      r.reqEnc = OrText(enc.req) /\ r.resEnc = OrText(enc.res)
                /\ r.reqEnc # "json" => r.reqOpts.body = r.opts.body

\* { encoding: { req: 'xml' }, body: {...} }: the request encoding is xml, the
\* response encoding falls back to text and is decoded as text, and the body
\* object reaches the transport as it was given.
C13_Witness ==
    \E i \in Slots :
        /\ Done(reqs[i])
        /\ reqs[i].opts.encoding = EncObj(Str("xml"), Undef)
        /\ reqs[i].opts.body = Obj("data=test")
        /\ reqs[i].reqEnc = "xml"
        /\ reqs[i].resEnc = "text"
        /\ reqs[i].reads = <<"text">>
        /\ reqs[i].reqOpts.body = Obj("data=test")

\* The live body stream of a response, handed over without being read.
BodyStream(resp) == [t |-> "stream", of |-> resp.body]

\* C14: for every call other than HEAD and OPTIONS the decoded body follows
\* the response encoding: json gives the parsed body, text the body text, raw
\* the live body stream itself with no read of it, and any other value the
\* body as a buffer, without an error of its own.
C14_ResponseDecoding ==
    \A i \in Slots :
        LET r == reqs[i]
            body == r.resp.body
            skipped == r.reqOpts.method \in
                          {Str("head"), Str("HEAD"), Str("options"), Str("OPTIONS")}
        IN  (Done(r) /\ Dispatched(r) /\ Answered(r) /\ ~skipped) =>
                /\ r.resEnc = "raw" =>
                      r.reads = <<>> /\ r.respBody = BodyStream(r.resp)
                /\ (r.resEnc = "json" /\ body \in JsonTexts) =>
                      r.respBody = JsonParse(body)
                /\ (r.resEnc = "text" /\ body # BrokenBody) =>
                      r.respBody = Str(body)
                /\ (r.resEnc \notin {"json", "text", "raw"} /\ body # BrokenBody) =>
                      /\ r.respBody = Buf(body)
                      /\ RespOk(r.resp) => Empty(CompletionError(r))

\* C15: when the method is HEAD or OPTIONS, in whatever letter case, no body
\* read is started on the response, the dispatch completes as soon as the
\* transport has answered, and the result of a 2xx response is the response
\* header mapping, whatever the response encoding.
C15_HeadOptionsSkipDecoding ==
    \A i \in Slots :
        LET r == reqs[i]
        IN  (Active(r) /\ Answered(r) /\
             r.reqOpts.method \in
                {Str("head"), Str("HEAD"), Str("options"), Str("OPTIONS")}) =>
                /\ r.reads = <<>>
                /\ Done(r)
                /\ RespOk(r.resp) => CompletionResult(r) = r.resp.headers

\* C16: each of the seven helpers get, post, put, patch, delete, head and
\* options can be called, and the dispatch it starts carries its own verb as
\* the method, in the options request receives and in the request handed to
\* the transport, whatever method the caller's options name.
C16_HelpersForceMethod ==
    \A i \in Slots :
        LET r == reqs[i]
        IN  (Active(r) /\ r.entry \in
                {"get", "post", "put", "patch", "delete", "head", "options"}) =>
                /\ r.ret.t # "thrown"
                /\ r.opts.method = Str(r.entry)
                /\ r.reqOpts.method = Str(r.entry)

\* C17: a call f(path, cb) and a call f(path, {}, cb) of the same f with the
\* same path and callback are the same dispatch: the callable given second is
\* the callback, the same URL and request options are handed to the
\* transport, and under the same transport outcome the callback receives the
\* same invocations and the same value is returned.
C17_CallbackAsSecondArg ==
    LET a == reqs[1]
        b == reqs[2]
    IN  /\ Active(a) => IsFunction(a.cb)
        /\ (Active(a) /\ Active(b) /\ a.entry = b.entry /\ a.path = b.path
              /\ a.cb = b.cb) =>
              /\ a.opts = b.opts
              /\ a.url = b.url
              /\ a.reqOpts = b.reqOpts
              /\ a.reqEnc = b.reqEnc
              /\ a.resEnc = b.resEnc
              /\ (a.pc = b.pc /\ a.resp = b.resp /\ a.fetchErr = b.fetchErr) =>
                    /\ a.cbCalls = b.cbCalls
                    /\ a.ret = b.ret
                    /\ a.reads = b.reads

\* fac.post(path, cb) and fac.post(path, {}, cb), both answered 500: each
\* callback is invoked once with the same protocol error.
C17_Witness ==
    /\ Done(reqs[1])
    /\ Done(reqs[2])
    /\ reqs[1].entry = "post"
    /\ reqs[2].entry = "post"
    /\ reqs[1].path = PathAbs
    /\ reqs[2].path = PathAbs
    /\ reqs[1].cb = Fn("returns")
    /\ reqs[2].cb = Fn("returns")
    /\ reqs[1].resp = MkResp(500, "test")
    /\ reqs[2].resp = MkResp(500, "test")
    /\ Len(reqs[1].cbCalls) = 1
    /\ reqs[1].cbCalls = reqs[2].cbCalls
    /\ reqs[1].cbCalls[1].err.status = Num(500)

\* C18: with a callback supplied the value a call returns never rejects and
\* nothing is thrown, and a failure of the dispatch (transport, protocol or
\* decode error) reaches the caller as the error argument of the callback.
C18_CallbackCarriesFailures ==
    \A i \in Slots :
        LET r == reqs[i]
            failed == \/ r.fetchErr # Null
                      \/ r.httpErr # Null
                      \/ ReadFailed(r)
        IN  (Active(r) /\ IsFunction(r.cb)) =>
                /\ r.ret.state \notin {"rejected", "thrown"}
                /\ (Done(r) /\ failed) =>
                      /\ r.cbCalls # <<>>
                      /\ Truthy(r.cbCalls[1].err)

\* C19: when a dispatch has completed, the headers mapping the caller's
\* options reference holds exactly what it held before the call, whatever the
\* request encoding is.
C19_CallerArgumentsUnchanged ==
    \A i \in Slots :
        LET r == reqs[i]
        IN  (Done(r) /\ Dispatched(r)) => r.callerHeaders = r.opts.headers

=============================================================================
